---------------------------- MODULE Spec2Model ----------------------------
(***************************************************************************)
(* State-machine model of contextualSpellCheck.py: the ContextualSpellCheck *)
(* pipeline component (misspellIdentify -> candidateGenerator ->           *)
(* candidateRanking -> assembly of the corrected text) and its two entry    *)
(* points, __call__ (spaCy pipeline) and check (convenience).               *)
(*                                                                         *)
(* Strings are sequences of one-character strings, so that lower-casing,   *)
(* concatenation, the mask placeholder and the edit distance are computed  *)
(* on characters as the code computes them.  A token is identified by its  *)
(* index in the document (spaCy hashes and compares a Token by doc and i). *)
(***************************************************************************)
EXTENDS Integers, Sequences, FiniteSets, TLC

\* ------------------------------------------------------------------ bounds

\* Longest document (in tokens) __call__ is started on.
MaxDocLen == 3

\* Longest query (in tokens) check is started on.
MaxQueryLen == 1

\* Number of suggestions kept per misspelled token.  The code's default is
\* top_n=10 (line 163); the model keeps the parameter small.
top_n == 2

\* ------------------------------------------------------- program constants

\* Initial value of least_edit_dist in candidateRanking.
least_edit_dist_init == 100

\* self.mask = BertTokenizer.mask_token of bert-base-cased: "[MASK]".
mask == <<"[", "M", "A", "S", "K", "]">>

\* Option encoding of Python's None / a value.
None == <<>>
Some(v) == <<v>>

\* ---------------------------------------------------------------- strings

RECURSIVE Repeat(_, _)
Repeat(c, n) == IF n = 0 THEN <<>> ELSE <<c>> \o Repeat(c, n - 1)

\* str.lower() on the characters the model's texts use.
LowerChar(c) ==
    CASE c = "I" -> "i"
      [] c = "J" -> "j"
      [] c = "M" -> "m"
      [] c = "A" -> "a"
      [] c = "S" -> "s"
      [] c = "K" -> "k"
      [] OTHER -> c

LowerSeq(s) == SubSeq([j \in 1..Len(s) |-> LowerChar(s[j])], 1, Len(s))

Range(s) == {s[j] : j \in 1..Len(s)}

\* ------------------------------------------------------------- vocabulary

\* self.vocab: the words of the vocabulary file, one per line, case kept.
vocab ==
    { <<"i","n","c","o","m","e">>,
      <<"w","a","s">>,
      <<"m","i","l","l","i","o","n">>,
      <<".">> }

\* ----------------------------------------------------------------- tokens

Tok(text, ws, ent, num, email, url) ==
    [text |-> text, whitespace_ |-> ws, ent_type_ |-> ent,
     like_num |-> num, like_email |-> email, like_url |-> url]

T_Income == Tok(<<"I","n","c","o","m","e">>, <<" ">>, "", FALSE, FALSE, FALSE)
T_milion == Tok(<<"m","i","l","i","o","n">>, <<" ">>, "", FALSE, FALSE, FALSE)
T_Jhon   == Tok(<<"J","h","o","n">>, <<" ">>, "PERSON", FALSE, FALSE, FALSE)
T_num    == Tok(<<"9",".","4">>, <<" ">>, "MONEY", TRUE, FALSE, FALSE)
T_email  == Tok(<<"a","@","b",".","c">>, <<>>, "", FALSE, TRUE, FALSE)
T_url    == Tok(<<"x",".","i","o">>, <<" ">>, "", FALSE, FALSE, TRUE)
\* A word as long as the initial least_edit_dist.
T_long   == Tok(Repeat("a", least_edit_dist_init), <<>>, "", FALSE, FALSE, FALSE)
\* A word whose surface text contains the mask placeholder.
T_maskIn == Tok(<<"x">> \o mask \o <<"y">>, <<>>, "", FALSE, FALSE, FALSE)

TokenPool == {T_Income, T_milion, T_Jhon, T_num, T_email, T_url, T_long, T_maskIn}

Docs == UNION {[1..n -> TokenPool] : n \in 0..MaxDocLen}

text_with_ws(tok) == tok.text \o tok.whitespace_

\* The lower-cased texts of the model's tokens, computed once.
LowerMemo == {<<tok.text, LowerSeq(tok.text)>> : tok \in TokenPool}

\* token.text.lower().
Lower(s) ==
    IF \E e \in LowerMemo : e[1] = s
    THEN (CHOOSE e \in LowerMemo : e[1] = s)[2]
    ELSE LowerSeq(s)

RECURSIVE DocText(_)
DocText(d) == IF Len(d) = 0 THEN <<>>
              ELSE DocText(SubSeq(d, 1, Len(d) - 1)) \o text_with_ws(d[Len(d)])


\* ------------------------------------------------------ misspellIdentify

\* Faulty variant of the condition below: the entity test is missing.
IsMisspell_NoPerson(token) ==
    /\ Lower(token.text) \notin vocab
    /\ ~token.like_num
    /\ ~token.like_email
    /\ ~token.like_url

\* The condition of lines 149-155 for one token.
IsMisspell(token) ==
    /\ Lower(token.text) \notin vocab
    /\ token.ent_type_ # "PERSON"
    /\ ~token.like_num
    /\ ~token.like_email
    /\ ~token.like_url

\* The loop of lines 147-157 over doc[1..n]: misspell.append(token).
RECURSIVE MisspellLoop(_, _)
MisspellLoop(d, n) ==
    IF n = 0 THEN <<>>
    ELSE LET rest == MisspellLoop(d, n - 1)
         IN IF IsMisspell(d[n]) THEN Append(rest, n) ELSE rest

\* Returns (misspell, doc); a token is its index in the document.
misspellIdentify(d) == [misspell |-> MisspellLoop(d, Len(d)), doc |-> d]

\* ----------------------------------------------------- candidateGenerator

\* Lines 186-191: the text sent for the misspelled token with index i.
RECURSIVE MaskedLoop(_, _, _)
MaskedLoop(d, i, n) ==
    IF n = 0 THEN <<>>
    ELSE MaskedLoop(d, i, n - 1)
         \o (IF n = i THEN mask \o d[n].whitespace_ ELSE text_with_ws(d[n]))

MaskedQuery(d, i) == MaskedLoop(d, i, Len(d))

\* The model's vocabulary: id -> string (BertTokenizer.decode([id])).
ModelVocab ==
    << <<"m","i","l","l","i","o","n">>,
       <<"m","i","n","i","o","n">>,
       <<"b","i","l","l","i","o","n">> >>

decode(id) == ModelVocab[id]

\* A probability is a binary floating-point number (float32 from softmax,
\* widened by tolist()): it is counted here in units of 1 / ProbUnit, which
\* every float holds exactly.
ProbUnit == 2 ^ 14

\* The softmax output for a mask is any assignment of these three values
\* (they sum to 1) to the three ids.  256 / ProbUnit = 0.015625 lies exactly
\* half-way between 0.01562 and 0.01563.
ProbValues == <<9830, 6298, 256>>

Distributions ==
    {p \in [1..Len(ModelVocab) -> Range(ProbValues)] :
        \A a, b \in 1..Len(ModelVocab) : a # b => p[a] # p[b]}

\* torch.topk(token_probability, n): the ids of the n largest entries, in
\* descending order of probability.
RECURSIVE topk(_, _, _)
topk(p, n, taken) ==
    IF n = 0 THEN <<>>
    ELSE LET left == DOMAIN p \ taken
             best == CHOOSE a \in left : \A b \in left : p[b] <= p[a]
         IN <<best>> \o topk(p, n - 1, taken \cup {best})

\* round(x, 5), the result counted in units of 1e-5: the exact binary value
\* is rounded to the nearest multiple of 1e-5, a tie to the even digit.
Round5(p) ==
    LET num == p * 100000
        q == num \div ProbUnit
        r == num % ProbUnit
    IN IF 2 * r < ProbUnit THEN q
       ELSE IF 2 * r > ProbUnit THEN q + 1
       ELSE IF q % 2 = 0 THEN q ELSE q + 1

\* Lines 212-215: the candidate strings recorded for one token.
ResponseEntry(p) ==
    LET ids == topk(p, top_n, {})
    IN [j \in 1..Len(ids) |-> decode(ids[j])]

\* Faulty variant of ScoreEntry: the pairs are stored in ascending order.
ScoreEntry_Reversed(p) ==
    LET ids == topk(p, top_n, {})
    IN [j \in 1..top_n |-> <<decode(ids[top_n + 1 - j]),
                             Round5(p[ids[top_n + 1 - j]])>>]

\* Lines 216-222: the (candidate, probability) pairs recorded for one token.
ScoreEntry(p) ==
    LET ids == topk(p, top_n, {})
    IN [j \in 1..top_n |-> <<decode(ids[j]), Round5(p[ids[j]])>>]

\* ------------------------------------------------------- candidateRanking

Min(a, b) == IF a < b THEN a ELSE b

\* The Levenshtein table, row by row.  A row is a sequence: column c is at
\* position c + 1.  With E[c] the best of "delete" and "substitute" into
\* column c, the row is new[c] = min over j <= c of E[j] + (c - j), the
\* "insert" steps; the running minimum of E[j] - j is taken by doubling, so
\* that no recursion is as deep as the longer string.
RECURSIVE PrefixMin(_, _)
PrefixMin(G, step) ==
    IF step >= Len(G) THEN G
    ELSE LET H == SubSeq([c \in 1..Len(G) |->
                            IF c > step THEN Min(G[c], G[c - step]) ELSE G[c]],
                         1, Len(G))
         IN PrefixMin(H, 2 * step)

LevRow(prev, ch, b) ==
    LET n == Len(b) + 1
        E == SubSeq([c \in 1..n |->
                        IF c = 1 THEN prev[1] + 1
                        ELSE Min(prev[c] + 1,
                                 prev[c - 1] + (IF b[c - 1] = ch THEN 0 ELSE 1))],
                    1, n)
        PM == PrefixMin(SubSeq([c \in 1..n |-> E[c] - c], 1, n), 1)
    IN SubSeq([c \in 1..n |-> PM[c] + c], 1, n)

RECURSIVE LevRows(_, _, _, _)
LevRows(a, b, i, prev) ==
    IF i > Len(a) THEN prev
    ELSE LET row == LevRow(prev, a[i], b)
         IN IF Len(row) = Len(prev) THEN LevRows(a, b, i + 1, row) ELSE row

\* The distance is symmetric: the rows run over the shorter string.
Levenshtein(s, t) ==
    LET a == IF Len(s) <= Len(t) THEN s ELSE t
        b == IF Len(s) <= Len(t) THEN t ELSE s
    IN LevRows(a, b, 1, SubSeq([c \in 1..(Len(b) + 1) |-> c - 1],
                               1, Len(b) + 1))[Len(b) + 1]

\* The distances between the model's token texts and the model's vocabulary,
\* computed once.
EditMemo ==
    {<<tok.text, c, Levenshtein(tok.text, c)>> :
        tok \in TokenPool, c \in Range(ModelVocab)}

\* editdistance.eval(s, t): the Levenshtein distance.
editdistance(s, t) ==
    IF \E e \in EditMemo : e[1] = s /\ e[2] = t
    THEN (CHOOSE e \in EditMemo : e[1] = s /\ e[2] = t)[3]
    ELSE Levenshtein(s, t)

\* Lines 258-266 for one misspelled word: the chosen candidate, or None.
RECURSIVE RankLoop(_, _, _, _, _)
RankLoop(text, cands, j, least, best) ==
    IF j > Len(cands) THEN best
    ELSE LET edit_dist == editdistance(text, cands[j])
         IN IF edit_dist < least
            THEN RankLoop(text, cands, j + 1, edit_dist, Some(cands[j]))
            ELSE RankLoop(text, cands, j + 1, least, best)

\* Lines 254-270: response[misspell] is set only when some candidate's edit
\* distance is below the initial least_edit_dist.
candidateRanking(d, misspellingsDict) ==
    LET best == [i \in DOMAIN misspellingsDict |->
                    RankLoop(d[i].text, misspellingsDict[i], 1,
                             least_edit_dist_init, None)]
    IN [i \in {m \in DOMAIN best : best[m] # None} |-> best[i][1]]

\* --------------------------------------------------------------- assembly

\* Faulty variant of AssembleLoop: a replaced token loses its whitespace.
RECURSIVE AssembleLoop_NoWs(_, _, _, _, _)
AssembleLoop_NoWs(d, mis, ans, i, acc) ==
    IF i > Len(d) THEN [ok |-> TRUE, text |-> acc]
    ELSE IF i \in Range(mis)
         THEN IF i \in DOMAIN ans
              THEN AssembleLoop_NoWs(d, mis, ans, i + 1, acc \o ans[i])
              ELSE [ok |-> FALSE, text |-> acc]
         ELSE AssembleLoop_NoWs(d, mis, ans, i + 1, acc \o text_with_ws(d[i]))

\* Lines 81-86 (__call__) and 114-118 (check): answer[i] raises KeyError
\* when the misspelled token i has no entry.
RECURSIVE AssembleLoop(_, _, _, _, _)
AssembleLoop(d, mis, ans, i, acc) ==
    IF i > Len(d) THEN [ok |-> TRUE, text |-> acc]
    ELSE IF i \in Range(mis)
         THEN IF i \in DOMAIN ans
              THEN AssembleLoop(d, mis, ans, i + 1,
                                acc \o ans[i] \o d[i].whitespace_)
              ELSE [ok |-> FALSE, text |-> acc]
         ELSE AssembleLoop(d, mis, ans, i + 1, acc \o text_with_ws(d[i]))

\* ------------------------------------------------------------------ state

VARIABLES
    pc,                   \* position of the run: idle, annotate, identify,
                          \* generate, rank, assemble, returned, raised
    entry,                \* "call" (__call__), "check" or "none"
    arg,                  \* the argument the entry point was given
    doc,                  \* the Doc's token sequence
    misspellTokens,       \* list returned by misspellIdentify (token indices)
    k,                    \* candidateGenerator: position in misspellings
    response,             \* candidateGenerator: token -> candidate strings
    score,                \* candidateGenerator: token -> (candidate, prob)
    sent,                 \* texts handed to BertTokenizer.encode / BertModel
    delivered,            \* the distributions the model answered with
    answer,               \* dict returned by candidateRanking
    performed_spellCheck, \* doc._.performed_spellCheck
    score_spellCheck,     \* doc._.score_spellCheck (None or Some(map))
    outcome_spellCheck,   \* doc._.outcome_spellCheck
    ret,                  \* what the entry point returned
    err,                  \* exception that ended the run, or "none"
    calls                 \* the stages invoked in this run, in order

vars == <<pc, entry, arg, doc, misspellTokens, k, response, score, sent,
          delivered, answer, performed_spellCheck, score_spellCheck, outcome_spellCheck,
          ret, err, calls>>

\* Arguments of check(query): a str (annotated by nlp into q.doc, so that
\* len(query) = Len(DocText(q.doc))), a list, or None.
StrQuery(d) == [type |-> "str", has_len |-> TRUE, len |-> Len(DocText(d)), doc |-> d]

QueryDocs == UNION {[1..n -> TokenPool] : n \in 0..MaxQueryLen}

Queries ==
    {StrQuery(d) : d \in QueryDocs}
    \cup {[type |-> "list", has_len |-> TRUE, len |-> 0, doc |-> <<>>],
          [type |-> "list", has_len |-> TRUE, len |-> 1, doc |-> <<>>],
          [type |-> "NoneType", has_len |-> FALSE, len |-> 0, doc |-> <<>>]}

\* A fresh Doc and run: the extension defaults of lines 36-45, no locals.
Fresh ==
    /\ misspellTokens = <<>>
    /\ k = 0
    /\ response = <<>>
    /\ score = <<>>
    /\ sent = <<>>
    /\ delivered = <<>>
    /\ answer = None
    /\ performed_spellCheck = FALSE
    /\ score_spellCheck = None
    /\ outcome_spellCheck = <<>>
    /\ calls = <<>>

\* The next run starts on a new Doc with new locals.
NewRun ==
    /\ misspellTokens' = <<>>
    /\ k' = 0
    /\ response' = <<>>
    /\ score' = <<>>
    /\ sent' = <<>>
    /\ delivered' = <<>>
    /\ answer' = None
    /\ performed_spellCheck' = FALSE
    /\ score_spellCheck' = None
    /\ outcome_spellCheck' = <<>>
    /\ calls' = <<>>

Init ==
    /\ pc = "idle"
    /\ entry = "none"
    /\ arg = <<>>
    /\ doc = <<>>
    /\ ret = "none"
    /\ err = "none"
    /\ Fresh

\* ------------------------------------------------------------ entry points

\* __call__(doc): the pipeline hands over an annotated Doc (line 60).
Call(d) ==
    /\ pc = "idle"
    /\ pc' = "identify"
    /\ entry' = "call"
    /\ arg' = d
    /\ doc' = d
    /\ ret' = "none"
    /\ err' = "none"
    /\ NewRun

\* Line 102: type(query) != str and len(query) == 0.
InvalidQuery(q) == q.type # "str" /\ q.len = 0

\* check(query), lines 102-103.  len() of an object without a length raises
\* TypeError; it is evaluated only when the type test is true.
Check(q) ==
    /\ pc = "idle"
    /\ entry' = "check"
    /\ arg' = q
    /\ doc' = <<>>
    /\ NewRun
    /\ IF q.type # "str" /\ ~q.has_len
       THEN pc' = "raised" /\ err' = "TypeError" /\ ret' = "none"
       ELSE IF InvalidQuery(q)
            THEN pc' = "returned" /\ err' = "none" /\ ret' = "invalid"
            ELSE pc' = "annotate" /\ err' = "none" /\ ret' = "none"

\* Lines 105-106: doc = nlp(query).  The tokenizer accepts a str only.
Annotate ==
    /\ pc = "annotate"
    /\ calls' = Append(calls, "nlp")
    /\ IF arg.type = "str"
       THEN pc' = "identify" /\ doc' = arg.doc /\ err' = "none"
       ELSE pc' = "raised" /\ doc' = doc /\ err' = "TypeError"
    /\ UNCHANGED <<entry, arg, misspellTokens, k, response, score, sent,
                   delivered, answer, performed_spellCheck, score_spellCheck,
                   outcome_spellCheck, ret>>

\* Faulty variant of HasMisspell: the generator is started unconditionally.
HasMisspell_Always(m) == TRUE

\* Lines 74 and 111: the test that starts candidate generation.
HasMisspell(m) == Len(m) > 0

\* Lines 71-75 / 108-112: misspellIdentify, then either the call of
\* candidateGenerator (lines 182-183) or the return (lines 91 / 125).
Identify ==
    /\ pc = "identify"
    /\ LET r == misspellIdentify(doc)
       IN /\ misspellTokens' = r.misspell
          /\ doc' = r.doc
          /\ IF HasMisspell(r.misspell)
             THEN /\ pc' = "generate"
                  /\ k' = 1
                  /\ calls' = calls \o <<"misspellIdentify", "candidateGenerator">>
                  /\ ret' = ret
             ELSE /\ pc' = "returned"
                  /\ k' = k
                  /\ calls' = Append(calls, "misspellIdentify")
                  /\ ret' = IF entry = "check" THEN "query_doc" ELSE "doc"
    /\ UNCHANGED <<entry, arg, response, score, sent, delivered, answer,
                   performed_spellCheck, score_spellCheck,
                   outcome_spellCheck, err>>

\* ----------------------------------------------------- candidateGenerator

\* One iteration of the loop of lines 185-222 in which the tokenizer and
\* the model answer with the distribution p for the mask.
Infer(p) ==
    /\ pc = "generate"
    /\ k <= Len(misspellTokens)
    /\ LET token == misspellTokens[k]
       IN /\ sent' = Append(sent, MaskedQuery(doc, token))
          /\ IF token \notin DOMAIN response
             THEN /\ response' = (token :> ResponseEntry(p)) @@ response
                  /\ score' = (token :> ScoreEntry(p)) @@ score
             ELSE UNCHANGED <<response, score>>
    /\ delivered' = Append(delivered, p)
    /\ k' = k + 1
    /\ calls' = Append(calls, "BertModel")
    /\ UNCHANGED <<pc, entry, arg, doc, misspellTokens, answer,
                   performed_spellCheck, score_spellCheck,
                   outcome_spellCheck, ret, err>>

\* Faulty variant of InferFail: the exception is caught inside the loop and
\* the loop goes on with the next token.
InferFail_Swallowed ==
    /\ pc = "generate"
    /\ k <= Len(misspellTokens)
    /\ sent' = Append(sent, MaskedQuery(doc, misspellTokens[k]))
    /\ calls' = Append(calls, "BertModel")
    /\ k' = k + 1
    /\ err' = "InferenceFailure"
    /\ UNCHANGED <<pc, entry, arg, doc, misspellTokens, response, score,
                   delivered, answer, performed_spellCheck, score_spellCheck,
                   outcome_spellCheck, ret>>

\* The same iteration when the inference call raises instead: nothing in
\* candidateGenerator, __call__ or check catches it.
InferFail ==
    /\ pc = "generate"
    /\ k <= Len(misspellTokens)
    /\ sent' = Append(sent, MaskedQuery(doc, misspellTokens[k]))
    /\ calls' = Append(calls, "BertModel")
    /\ pc' = "raised"
    /\ err' = "InferenceFailure"
    /\ UNCHANGED <<entry, arg, doc, misspellTokens, k, response, score,
                   delivered, answer, performed_spellCheck, score_spellCheck,
                   outcome_spellCheck, ret>>

\* Lines 231-235: the end of candidateGenerator.
GenReturn ==
    /\ pc = "generate"
    /\ k > Len(misspellTokens)
    /\ IF Len(misspellTokens) # 0
       THEN /\ performed_spellCheck' = TRUE
            /\ score_spellCheck' = Some(score)
       ELSE UNCHANGED <<performed_spellCheck, score_spellCheck>>
    /\ pc' = "rank"
    /\ UNCHANGED <<entry, arg, doc, misspellTokens, k, response, score, sent,
                   delivered, answer, outcome_spellCheck, ret, err, calls>>

\* Lines 78 / 113: answer = self.candidateRanking(candidate).
Rank ==
    /\ pc = "rank"
    /\ answer' = Some(candidateRanking(doc, response))
    /\ calls' = Append(calls, "candidateRanking")
    /\ pc' = "assemble"
    /\ UNCHANGED <<entry, arg, doc, misspellTokens, k, response, score, sent,
                   delivered, performed_spellCheck, score_spellCheck,
                   outcome_spellCheck, ret, err>>

\* Lines 81-91 / 114-125: the assembly loop, then doc._.set and the return.
Assemble ==
    /\ pc = "assemble"
    /\ calls' = Append(calls, "assemble")
    /\ LET r == AssembleLoop(doc, misspellTokens, answer[1], 1, <<>>)
       IN IF r.ok
          THEN /\ outcome_spellCheck' = r.text
               /\ pc' = "returned"
               /\ ret' = IF entry = "check" THEN "query_doc" ELSE "doc"
               /\ err' = err
          ELSE /\ outcome_spellCheck' = outcome_spellCheck
               /\ pc' = "raised"
               /\ ret' = ret
               /\ err' = "KeyError"
    /\ UNCHANGED <<entry, arg, doc, misspellTokens, k, response, score, sent,
                   delivered, answer, performed_spellCheck, score_spellCheck>>

Next ==
    \/ pc = "idle" /\ \E d \in Docs : Call(d)
    \/ pc = "idle" /\ \E q \in Queries : Check(q)
    \/ Annotate
    \/ Identify
    \/ \E p \in Distributions : Infer(p)
    \/ InferFail
    \/ GenReturn
    \/ Rank
    \/ Assemble

Spec == Init /\ [][Next]_vars

\* ----------------------------------------------------------------- claims

Called(stage) == stage \in Range(calls)

\* The document the run was started on.
InputDoc == IF entry = "check" THEN arg.doc ELSE arg

\* candidateGenerator ran to its return statement.
Generated == Called("candidateGenerator") /\ pc \in {"rank", "assemble", "returned", "raised"}
             /\ err # "InferenceFailure"

\* Number of places where the mask placeholder occurs in a text.
CountMask(text) ==
    Cardinality({q \in 1..Len(text) :
                    /\ q + Len(mask) - 1 <= Len(text)
                    /\ SubSeq(text, q, q + Len(mask) - 1) = mask})

\* The text a token contributes when the map repl gives its replacement.
Piece(d, repl, i) ==
    IF i \in DOMAIN repl THEN repl[i] \o d[i].whitespace_
    ELSE d[i].text \o d[i].whitespace_

RECURSIVE Pieces(_, _, _)
Pieces(d, repl, n) ==
    IF n = 0 THEN <<>> ELSE Pieces(d, repl, n - 1) \o Piece(d, repl, n)

\* C1: misspellIdentify returns, in document order, exactly the tokens whose
\* lower-cased text is not in the vocabulary, whose entity label is not
\* PERSON and that are not numeric-, email- or URL-like; the document is
\* the one it was given.
C1_Classify ==
    Called("misspellIdentify") =>
        /\ \A i \in 1..Len(doc) :
              (\E j \in 1..Len(misspellTokens) : misspellTokens[j] = i)
              <=> /\ Lower(doc[i].text) \notin vocab
                  /\ doc[i].ent_type_ # "PERSON"
                  /\ ~doc[i].like_num
                  /\ ~doc[i].like_email
                  /\ ~doc[i].like_url
        /\ \A a, b \in 1..Len(misspellTokens) :
              a < b => misspellTokens[a] < misspellTokens[b]
        /\ doc = InputDoc

\* A PERSON outside the vocabulary is skipped and the misspelling after it
\* is returned.
C1_Witness ==
    /\ Called("misspellIdentify")
    /\ doc = <<T_Jhon, T_milion>>
    /\ misspellTokens = <<2>>

\* C2: for every misspelled token, candidateRanking returns a candidate of
\* its list whose edit distance to the token's text is the minimum over the
\* list, and the earliest such candidate.
C2_RankMinEarliest ==
    Called("candidateRanking") =>
        \A i \in Range(misspellTokens) :
            /\ i \in DOMAIN answer[1]
            /\ \E j \in 1..Len(response[i]) :
                  /\ response[i][j] = answer[1][i]
                  /\ \A m \in 1..Len(response[i]) :
                        editdistance(doc[i].text, response[i][j])
                            <= editdistance(doc[i].text, response[i][m])
                  /\ \A m \in 1..(j - 1) :
                        editdistance(doc[i].text, response[i][j])
                            < editdistance(doc[i].text, response[i][m])

\* C3: the domain of candidateRanking's result is exactly the set of tokens
\* with a non-empty candidate list, and each replacement is a member of its
\* token's list.
C3_RankDomain ==
    Called("candidateRanking") =>
        /\ DOMAIN answer[1] = {i \in DOMAIN response : Len(response[i]) > 0}
        /\ \A i \in DOMAIN answer[1] : answer[1][i] \in Range(response[i])

\* C4: a run whose ranking result lacks a misspelled token completes, and
\* its outcome passes that token's text and whitespace through.
C4_NoEntryPassThrough ==
    ( /\ Called("assemble")
      /\ \E i \in Range(misspellTokens) : i \notin DOMAIN answer[1] )
    => /\ pc = "returned"
       /\ err = "none"
       /\ outcome_spellCheck = Pieces(doc, answer[1], Len(doc))

\* C5: when every misspelled token has a ranking entry, the outcome is the
\* concatenation in document order of replacement + whitespace for the
\* misspelled tokens and text + whitespace for the others; the token
\* sequence is the one the run was given.
C5_Outcome ==
    ( /\ Called("assemble")
      /\ \A i \in Range(misspellTokens) : i \in DOMAIN answer[1] )
    => /\ pc = "returned"
       /\ outcome_spellCheck = Pieces(doc, answer[1], Len(doc))
       /\ DOMAIN answer[1] = Range(misspellTokens)
       /\ doc = InputDoc

\* "milion Income " is assembled as "minion Income ".
C5_Witness ==
    /\ Called("assemble")
    /\ doc = <<T_milion, T_Income>>
    /\ outcome_spellCheck = <<"m","i","n","i","o","n"," ",
                              "I","n","c","o","m","e"," ">>

\* C6: when misspellIdentify returns an empty list, candidateGenerator and
\* the model are never invoked and the run ends with the default outcome,
\* flag and score map.
C6_NoMisspell ==
    (Called("misspellIdentify") /\ misspellTokens = <<>>) =>
        /\ ~Called("candidateGenerator")
        /\ ~Called("BertModel")
        /\ sent = <<>>
        /\ pc = "returned"
        /\ outcome_spellCheck = <<>>
        /\ performed_spellCheck = FALSE
        /\ score_spellCheck = None

\* A run on a non-empty document without misspellings has returned.
C6_Witness ==
    /\ Called("misspellIdentify")
    /\ doc = <<T_Income, T_num>>
    /\ misspellTokens = <<>>
    /\ pc = "returned"

\* C7: an inference failure for any misspelled token ends the run: score
\* map unset, flag false, outcome empty, ranking and assembly not started.
C7_InferenceFailure ==
    err = "InferenceFailure" =>
        /\ pc = "raised"
        /\ score_spellCheck = None
        /\ performed_spellCheck = FALSE
        /\ outcome_spellCheck = <<>>
        /\ answer = None
        /\ ~Called("candidateRanking")
        /\ ~Called("assemble")

\* The call for a middle misspelled token fails: an earlier call succeeded
\* and a later token is still to come.
C7_Witness ==
    /\ err = "InferenceFailure"
    /\ 1 < k
    /\ k < Len(misspellTokens)
    /\ Len(delivered) = k - 1

\* C8: check on an empty string or on a value that is not a non-empty
\* string reports the invalid input at once: no annotation, no misspell
\* detection, no inference call.
C8_InvalidInput ==
    (entry = "check" /\ (arg.type # "str" \/ arg.len = 0)) =>
        /\ pc = "returned"
        /\ ret = "invalid"
        /\ calls = <<>>
        /\ sent = <<>>

\* C9: once candidateGenerator has returned, the flag is true and the
\* stored score map has one entry per misspelled token: at most top_n
\* (candidate, probability) pairs, the model's most probable entries in
\* descending order of probability; this also holds after ranking and
\* assembly, whatever they produce.
C9_ScoreMap ==
    Generated =>
        /\ performed_spellCheck = TRUE
        /\ score_spellCheck # None
        /\ DOMAIN score_spellCheck[1] = Range(misspellTokens)
        /\ \A j \in 1..Len(misspellTokens) :
              LET e == score_spellCheck[1][misspellTokens[j]]
                  p == delivered[j]
              IN /\ Len(e) <= top_n
                 /\ \E ids \in [1..Len(e) -> DOMAIN p] :
                       /\ \A a \in 1..Len(e) :
                             /\ e[a][1] = ModelVocab[ids[a]]
                             /\ 2 * (e[a][2] * ProbUnit - p[ids[a]] * 100000)
                                    \in -ProbUnit..ProbUnit
                       /\ \A a, b \in 1..Len(e) : a < b => p[ids[a]] > p[ids[b]]
                       /\ \A o \in DOMAIN p :
                             (\A a \in 1..Len(e) : ids[a] # o)
                             => \A a \in 1..Len(e) : p[o] < p[ids[a]]

\* The score map and the flag are still set after the assembly failed.
C9_Witness ==
    /\ Generated
    /\ pc = "raised"
    /\ performed_spellCheck = TRUE
    /\ score_spellCheck # None
    /\ Len(misspellTokens) > 1

\* C10: every text sent to the model holds exactly one mask placeholder, at
\* the misspelled token's place, with all other texts and all whitespace as
\* in the source; one text is sent per misspelled token.
C10_MaskedText ==
    /\ \A j \in 1..Len(sent) :
          LET i == misspellTokens[j]
          IN /\ CountMask(sent[j]) = 1
             /\ sent[j] = DocText(SubSeq(doc, 1, i - 1)) \o mask
                          \o doc[i].whitespace_
                          \o DocText(SubSeq(doc, i + 1, Len(doc)))
    /\ Generated => Len(sent) = Len(misspellTokens)

=============================================================================
